---- MODULE Spec2Model ----
(***************************************************************************)
(* A model of the blog backend's two stateful components:                  *)
(*   - RateLimitMiddleware (app/middleware.py): the per-IP sliding window   *)
(*   - the authentication routes (app/routes/auth.py): register, login,    *)
(*     create_access_token and get_current_user over the users table       *)
(* Four specifications share the module: Spec (the rate limiter),          *)
(* SpecAuth (accounts and login), SpecToken (token lifetimes) and          *)
(* SpecValidate (the UserRegister validators over their inputs).           *)
(***************************************************************************)
EXTENDS Integers, Sequences, FiniteSets, TLC

VARIABLES
    clients,    \* RateLimitMiddleware.clients: ip -> list of timestamps
    clock,      \* the value time.time() returns
    req,        \* the dispatch coroutines in flight: slot -> [pc, ip, t]
    log,        \* history: ip -> sequence of [t, ok], every finished admission decision
    users,      \* the rows of the users table
    nextId,     \* the next fresh User.id (uuid.uuid4 never repeats)
    tokens,     \* history: the tokens issued so far, each with its time and ttl
    utcnow,     \* the value datetime.utcnow() returns, in ticks
    advances,   \* how often the clock has been advanced
    last,       \* the last request to an auth route and its response
    loggedOut   \* history: the tokens POST /logout has answered 200 to

rateVars == <<clients, clock, req, log>>

authVars == <<users, nextId, tokens, utcnow, advances, last, loggedOut>>

vars == <<clients, clock, req, log, users, nextId, tokens, utcnow, advances, last, loggedOut>>

-----------------------------------------------------------------------------
(* Rate limiter: app/middleware.py                                         *)

\* RateLimitMiddleware(app, calls, period): the constructor's parameters
\* (defaults 100 and 900), instantiated small.
calls == 2
period == 3

MaxTime == 5
MaxInFlight == 3
MaxLog == 4

Clients == {"10.0.0.1", "10.0.0.2"}
Slots == 1..MaxInFlight

Idle == [pc |-> "idle", ip |-> "", t |-> 0]

\* The program points of dispatch at which the coroutine yields to the event
\* loop: only the await of call_next (line 41).  Lines 21-39 hold no await.
AwaitPointsRacy == {"append", "call_next"}
AwaitPoints == {"call_next"}

\* client_ip = request.client.host
ClientKeyShared(ip) == "10.0.0.1"
ClientKey(ip) == ip

\* defaultdict(list): a missing key reads as the empty list
Get(ip) == IF ip \in DOMAIN clients THEN clients[ip] ELSE <<>>

Put(ip, ts) == [k \in (DOMAIN clients) \cup {ip} |-> IF k = ip THEN ts ELSE clients[k]]

\* [timestamp for timestamp in self.clients[client_ip]
\*  if current_time - timestamp < self.period]
PurgeInclusive(ts, t) == SelectSeq(ts, LAMBDA x : t - x <= period)
PurgeFixedWindow(ts, t) == SelectSeq(ts, LAMBDA x : x \div period = t \div period)
PurgeRecordFirst(ts, t) == Append(SelectSeq(ts, LAMBDA x : t - x < period), t)
Purge(ts, t) == SelectSeq(ts, LAMBDA x : t - x < period)

\* len(self.clients[client_ip]) >= self.calls
OverLimitOffByOne(ts) == Len(ts) > calls
OverLimit(ts) == Len(ts) >= calls

\* the number of requests that have entered dispatch so far
Requests ==
    LET RECURSIVE Sum(_)
        Sum(S) == IF S = {} THEN 0
                  ELSE LET c == CHOOSE x \in S : TRUE IN Len(log[c]) + Sum(S \ {c})
    IN  Sum(Clients) + Cardinality({r \in Slots : req[r].pc = "append"})

Logged(ip, t, ok) == [log EXCEPT ![ip] = Append(@, [t |-> t, ok |-> ok])]

RateInit ==
    /\ clients = <<>>
    /\ clock = 0
    /\ req = [r \in Slots |-> Idle]
    /\ log = [c \in Clients |-> <<>>]

\* time.time() moves on
Tick ==
    /\ clock < MaxTime
    /\ clock' = clock + 1
    /\ UNCHANGED <<clients, req, log>>
    /\ UNCHANGED authVars

\* A request of client ip enters dispatch and runs to its first await point.
Dispatch(r, ip) ==
    /\ req[r].pc = "idle"
    /\ Requests < MaxLog
    /\ LET key == ClientKey(ip)
           current_time == clock
           purged == Purge(Get(key), current_time)
       IN  IF OverLimit(purged)
           THEN \* raise HTTPException(429): the request ends here
                /\ clients' = Put(key, purged)
                /\ req' = req
                /\ log' = Logged(ip, current_time, FALSE)
           ELSE IF "append" \in AwaitPoints
           THEN /\ clients' = Put(key, purged)
                /\ req' = [req EXCEPT ![r] = [pc |-> "append", ip |-> ip, t |-> current_time]]
                /\ log' = log
           ELSE /\ clients' = Put(key, Append(purged, current_time))
                /\ req' = [req EXCEPT ![r] = [pc |-> "call_next", ip |-> ip, t |-> 0]]
                /\ log' = Logged(ip, current_time, TRUE)
    /\ UNCHANGED clock
    /\ UNCHANGED authVars

\* The event loop resumes a suspended dispatch, which runs to its next await
\* point or to its return.
Resume(r) ==
    /\ req[r].pc \in {"append", "call_next"}
    /\ IF req[r].pc = "append"
       THEN LET key == ClientKey(req[r].ip)
            IN  /\ clients' = Put(key, Append(Get(key), req[r].t))
                /\ req' = [req EXCEPT ![r] = [pc |-> "call_next", ip |-> req[r].ip, t |-> 0]]
                /\ log' = Logged(req[r].ip, req[r].t, TRUE)
       ELSE \* response = await call_next(request); return response
            /\ req' = [req EXCEPT ![r] = Idle]
            /\ UNCHANGED <<clients, log>>
    /\ UNCHANGED clock
    /\ UNCHANGED authVars

RateNext ==
    \/ Tick
    \/ \E r \in Slots, ip \in Clients : Dispatch(r, ip)
    \/ \E r \in Slots : Resume(r)

-----------------------------------------------------------------------------
(* Accounts and tokens: app/routes/auth.py, app/models/user.py             *)

\* Strings are sequences of characters.
Lower == {"a", "b", "c", "d", "e", "f", "g", "h", "i", "j", "k", "l", "m",
          "n", "o", "p", "q", "r", "s", "t", "u", "v", "w", "x", "y", "z"}
Upper == {"A", "B", "C", "D", "E", "F", "G", "H", "I", "J", "K", "L", "M",
          "N", "O", "P", "Q", "R", "S", "T", "U", "V", "W", "X", "Y", "Z"}
AsciiDigit == {"0", "1", "2", "3", "4", "5", "6", "7", "8", "9"}
\* "arabic-indic 3" stands for U+0663, a decimal digit outside ASCII
UnicodeDigit == AsciiDigit \cup {"arabic-indic 3"}
Newline == "\n"

USERNAME_MIN == 3
USERNAME_MAX == 50
PASSWORD_MIN == 8

\* re.match(r'^[a-zA-Z0-9_]+$', v): Python's $ matches at the end of the
\* string and also just before a newline that ends the string.
UsernamePatternStrict(v) ==
    /\ Len(v) >= 1
    /\ \A i \in 1..Len(v) : v[i] \in Lower \cup Upper \cup AsciiDigit \cup {"_"}
UsernamePattern(v) ==
    LET Word(n) == \A i \in 1..n : v[i] \in Lower \cup Upper \cup AsciiDigit \cup {"_"}
    IN  \/ Len(v) >= 1 /\ Word(Len(v))
        \/ Len(v) >= 2 /\ v[Len(v)] = Newline /\ Word(Len(v) - 1)

\* re.match(r'^(?=.*[a-z])(?=.*[A-Z])(?=.*\d)', v): each lookahead searches
\* the first line only (. does not match a newline); \d is any decimal digit.
PasswordPattern(v) ==
    LET Ahead(class) == \E i \in 1..Len(v) :
                            /\ v[i] \in class
                            /\ \A j \in 1..(i - 1) : v[j] # Newline
    IN  Ahead(Lower) /\ Ahead(Upper) /\ Ahead(UnicodeDigit)

validate_username(v) ==
    IF Len(v) < USERNAME_MIN \/ Len(v) > USERNAME_MAX
    THEN "Username must be between 3 and 50 characters"
    ELSE IF ~UsernamePattern(v)
    THEN "Username can only contain letters, numbers, and underscores"
    ELSE "ok"

validate_password(v) ==
    IF Len(v) < PASSWORD_MIN
    THEN "Password must be at least 8 characters long"
    ELSE IF ~PasswordPattern(v)
    THEN "Password must contain at least one uppercase letter, one lowercase letter, and one number"
    ELSE "ok"

\* UserRegister(**body): the errors the validators raise
UserRegister(username, password) ==
    {validate_username(username), validate_password(password)} \ {"ok"}

\* pwd_context.hash / pwd_context.verify: bcrypt with the salt kept in the hash
Bcrypt(salt, password) == <<"bcrypt", salt, password>>
get_password_hash(password, salt) == Bcrypt(salt, password)
verify_password(plain_password, hashed_password) ==
    Bcrypt(hashed_password[2], plain_password) = hashed_password

\* settings.JWT_SECRET, settings.JWT_ALGORITHM
JWT_SECRET == "server secret"
JWT_ALGORITHM == "HS256"

TicksPerSecond == 2
DEFAULT_EXPIRE_SECONDS == 604800
ACCESS_TOKEN_EXPIRE_SECONDS == 604800

Seconds(n) == n * TicksPerSecond

\* calendar.timegm(d.utctimetuple()): whole seconds, the fraction dropped
Timegm(ticks) == ticks \div TicksPerSecond

\* jose.jwt.encode: a datetime claim is written as whole seconds
JwtEncode(claims, key, algorithm) ==
    [claims |-> claims, key |-> key, alg |-> algorithm]

\* jose.jwt.decode: the signature and the algorithm are checked, then exp:
\* the token is expired when exp < now (whole seconds); <<>> is a JWTError
JwtDecode(token, key, algorithms, now) ==
    IF token.key # key \/ token.alg \notin algorithms THEN <<>>
    ELSE IF token.claims.exp < Timegm(now) THEN <<>>
    ELSE <<token.claims>>

\* An optional value is <<>> (None) or <<v>>.  timedelta(0) is falsy.
Truthy(expires_delta) == expires_delta # <<>> /\ expires_delta[1] # 0

create_access_token(data, expires_delta, now) ==
    LET expire == IF Truthy(expires_delta)
                  THEN now + expires_delta[1]
                  ELSE now + Seconds(DEFAULT_EXPIRE_SECONDS)
    IN  JwtEncode([sub |-> data.sub, exp |-> Timegm(expire)], JWT_SECRET, JWT_ALGORITHM)

\* str(user.id)
Str(id) == <<"str", id>>

Unauthenticated == [status |-> 401, detail |-> "Could not validate credentials", user |-> <<>>]

\* get_current_user(token, db)
CurrentUserBanChecked(us, token, now) ==
    LET payload == JwtDecode(token, JWT_SECRET, {JWT_ALGORITHM}, now)
    IN  IF payload = <<>> \/ payload[1].sub = <<>> THEN Unauthenticated
        ELSE LET found == {u \in us : Str(u.id) = payload[1].sub[1] /\ ~u.is_banned}
             IN  IF found = {} THEN Unauthenticated
                 ELSE [status |-> 200, detail |-> "", user |-> <<CHOOSE u \in found : TRUE>>]
CurrentUserRevoking(us, token, now) ==
    LET payload == JwtDecode(token, JWT_SECRET, {JWT_ALGORITHM}, now)
    IN  IF token \in loggedOut \/ payload = <<>> \/ payload[1].sub = <<>> THEN Unauthenticated
        ELSE LET found == {u \in us : Str(u.id) = payload[1].sub[1]}
             IN  IF found = {} THEN Unauthenticated
                 ELSE [status |-> 200, detail |-> "", user |-> <<CHOOSE u \in found : TRUE>>]
CurrentUser(us, token, now) ==
    LET payload == JwtDecode(token, JWT_SECRET, {JWT_ALGORITHM}, now)
    IN  IF payload = <<>> \/ payload[1].sub = <<>> THEN Unauthenticated
        ELSE LET found == {u \in us : Str(u.id) = payload[1].sub[1]}
             IN  IF found = {} THEN Unauthenticated
                 ELSE [status |-> 200, detail |-> "", user |-> <<CHOOSE u \in found : TRUE>>]

\* db.query(User).filter((User.email == email) | (User.username == username))
ExistingUsersByEmail(us, email, username) == {u \in us : u.email = email}
ExistingUsers(us, email, username) == {u \in us : u.email = email \/ u.username = username}

\* username and email are unique=True: db.commit() raises IntegrityError
UniqueViolation(us, row) ==
    \E u \in us : u.id = row.id \/ u.username = row.username \/ u.email = row.email

\* login(user_data, db): the response
LoginResponseNoBanCheck(us, email, password, now) ==
    LET found == {u \in us : u.email = email}
    IN  IF found = {} \/ \A u \in found : ~verify_password(password, u.password_hash)
        THEN [status |-> 401, detail |-> "Incorrect email or password", body |-> <<>>]
        ELSE LET user == CHOOSE u \in found : TRUE
             IN  [status |-> 200, detail |-> "",
                  body |-> <<[access_token |-> create_access_token([sub |-> <<Str(user.id)>>],
                                                   <<Seconds(ACCESS_TOKEN_EXPIRE_SECONDS)>>, now),
                              token_type |-> "bearer",
                              expires_in |-> ACCESS_TOKEN_EXPIRE_SECONDS]>>]
LoginResponseUserNotFound(us, email, password, now) ==
    LET found == {u \in us : u.email = email}
    IN  IF found = {}
        THEN [status |-> 404, detail |-> "User not found", body |-> <<>>]
        ELSE IF \A u \in found : ~verify_password(password, u.password_hash)
        THEN [status |-> 401, detail |-> "Incorrect email or password", body |-> <<>>]
        ELSE LoginResponseNoBanCheck(us, email, password, now)
LoginResponse(us, email, password, now) ==
    LET found == {u \in us : u.email = email}
        \* .first(): email is unique, so found holds at most one row
    IN  IF found = {} \/ \A u \in found : ~verify_password(password, u.password_hash)
        THEN [status |-> 401, detail |-> "Incorrect email or password", body |-> <<>>]
        ELSE LET user == CHOOSE u \in found : TRUE
             IN  IF user.is_banned
                 THEN [status |-> 403, detail |-> "Account is banned", body |-> <<>>]
                 ELSE [status |-> 200, detail |-> "",
                       body |-> <<[access_token |-> create_access_token([sub |-> <<Str(user.id)>>],
                                                        <<Seconds(ACCESS_TOKEN_EXPIRE_SECONDS)>>, now),
                                   token_type |-> "bearer",
                                   expires_in |-> ACCESS_TOKEN_EXPIRE_SECONDS]>>]

MaxUsers == 2
MaxTokens == 1
MaxAdvance == 2

Usernames == {<<"b", "o", "b">>, <<"a", "_", "1">>, <<"a", "b">>}
Emails == {"a@example.com", "b@example.com"}
Passwords == {<<"P", "a", "s", "s", "w", "o", "r", "d", "1">>}
\* the passwords login is tried with
LoginPasswords == {<<"P", "a", "s", "s", "w", "o", "r", "d", "1">>,
                   <<"S", "e", "c", "r", "e", "t", "4", "2">>}
\* bcrypt draws a fresh salt for every hash
Salt(n) == <<"salt", n>>
\* the ttl arguments create_access_token is called with, in ticks
Deltas == {<<>>, <<0>>, <<1>>, <<Seconds(1)>>}
\* the clock's steps: one tick, or the whole default lifetime
UtcSteps == {1, Seconds(DEFAULT_EXPIRE_SECONDS)}

NoRequest == [op |-> "none"]

AuthInit ==
    /\ users = {}
    /\ nextId = 1
    /\ tokens = {}
    /\ utcnow = 0
    /\ advances = 0
    /\ last = NoRequest
    /\ loggedOut = {}

\* POST /register: the body is parsed into UserRegister, then register runs
SubmitRegister(username, email, password, salt) ==
    LET errors == UserRegister(username, password)
        Respond(status, detail) ==
            last' = [op |-> "register", username |-> username, email |-> email,
                     password |-> password, status |-> status, detail |-> detail]
    IN  /\ IF errors # {}
           THEN /\ Respond(422, errors)
                /\ UNCHANGED <<users, nextId>>
           ELSE LET existing == ExistingUsers(users, email, username)
                    db_user == [id |-> nextId, username |-> username, email |-> email,
                                password_hash |-> get_password_hash(password, salt),
                                is_banned |-> FALSE]
                IN  IF existing # {}
                    THEN /\ \E existing_user \in existing :
                               IF existing_user.email = email
                               THEN Respond(400, {"Email already registered"})
                               ELSE Respond(400, {"Username already taken"})
                         /\ UNCHANGED <<users, nextId>>
                    ELSE /\ nextId <= MaxUsers
                         /\ IF UniqueViolation(users, db_user)
                            THEN /\ Respond(500, {"IntegrityError"})
                                 /\ UNCHANGED <<users, nextId>>
                            ELSE /\ Respond(200, {})
                                 /\ users' = users \cup {db_user}
                                 /\ nextId' = nextId + 1
        /\ UNCHANGED <<tokens, utcnow, advances>>
        /\ UNCHANGED <<rateVars, loggedOut>>

\* POST /login
Login(email, password) ==
    LET response == LoginResponse(users, email, password, utcnow)
    IN  /\ response.status = 200 => Cardinality(tokens) < MaxTokens
        /\ last' = [op |-> "login", email |-> email, password |-> password,
                    status |-> response.status, detail |-> response.detail,
                    body |-> response.body]
        /\ tokens' = IF response.status = 200
                     THEN tokens \cup {[token |-> response.body[1].access_token, at |-> utcnow,
                                        delta |-> <<Seconds(ACCESS_TOKEN_EXPIRE_SECONDS)>>]}
                     ELSE tokens
        /\ UNCHANGED <<users, nextId, utcnow, advances>>
    /\ UNCHANGED <<rateVars, loggedOut>>
        /\ UNCHANGED <<rateVars, loggedOut>>

\* create_access_token called with any subject and any ttl
CreateAccessToken(sub, expires_delta) ==
    /\ Cardinality(tokens) < MaxTokens
    /\ tokens' = tokens \cup {[token |-> create_access_token([sub |-> sub], expires_delta, utcnow),
                               at |-> utcnow, delta |-> expires_delta]}
    /\ last' = NoRequest
    /\ UNCHANGED <<users, nextId, utcnow, advances>>
    /\ UNCHANGED <<rateVars, loggedOut>>

\* the bearer tokens a request can carry: the issued ones, and the same
\* claims signed by somebody else
Presentable ==
    {i.token : i \in tokens}
        \cup {JwtEncode(i.token.claims, "other secret", JWT_ALGORITHM) : i \in tokens}

\* a route that Depends(get_current_user): GET /me, POST /logout
GetCurrentUser(token) ==
    LET result == CurrentUser(users, token, utcnow)
    IN  /\ last' = [op |-> "get_current_user", token |-> token,
                    status |-> result.status, detail |-> result.detail, user |-> result.user]
        /\ UNCHANGED <<users, nextId, tokens, utcnow, advances>>
        /\ UNCHANGED <<rateVars, loggedOut>>

\* POST /logout: get_current_user runs as the dependency, then the handler
\* returns its message; nothing is written
Logout(token) ==
    LET result == CurrentUser(users, token, utcnow)
    IN  /\ last' = [op |-> "logout", token |-> token, status |-> result.status,
                    detail |-> IF result.status = 200 THEN "Successfully logged out"
                                                      ELSE result.detail]
        /\ loggedOut' = IF result.status = 200 THEN loggedOut \cup {token} ELSE loggedOut
        /\ UNCHANGED <<users, nextId, tokens, utcnow, advances>>
        /\ UNCHANGED rateVars

\* a moderator sets User.is_banned
BanUser(id) ==
    /\ \E u \in users : u.id = id /\ ~u.is_banned
    /\ users' = {IF u.id = id THEN [u EXCEPT !.is_banned = TRUE] ELSE u : u \in users}
    /\ last' = NoRequest
    /\ UNCHANGED <<nextId, tokens, utcnow, advances>>
    /\ UNCHANGED <<rateVars, loggedOut>>

\* the row of a user is deleted
DeleteUser(id) ==
    /\ \E u \in users : u.id = id
    /\ users' = {u \in users : u.id # id}
    /\ last' = NoRequest
    /\ UNCHANGED <<nextId, tokens, utcnow, advances>>
    /\ UNCHANGED <<rateVars, loggedOut>>

\* datetime.utcnow() moves on
AdvanceUtc(d) ==
    /\ advances < MaxAdvance
    /\ advances' = advances + 1
    /\ utcnow' = utcnow + d
    /\ last' = NoRequest
    /\ UNCHANGED <<users, nextId, tokens>>
    /\ UNCHANGED <<rateVars, loggedOut>>

AuthNext ==
    \/ \E username \in Usernames, email \in Emails, password \in Passwords :
          SubmitRegister(username, email, password, Salt(nextId))
    \/ \E email \in Emails, password \in LoginPasswords : Login(email, password)
    \/ \E token \in Presentable : GetCurrentUser(token)
    \/ \E id \in 1..MaxUsers : BanUser(id)
    \/ \E id \in 1..MaxUsers : DeleteUser(id)
    \/ \E d \in UtcSteps : AdvanceUtc(d)

\* login, logout and authenticated requests of one account over time
SessionNext ==
    \/ /\ users = {}
       /\ SubmitRegister(<<"b", "o", "b">>, "b@example.com",
                         <<"P", "a", "s", "s", "w", "o", "r", "d", "1">>, Salt(nextId))
    \/ \E password \in LoginPasswords : Login("b@example.com", password)
    \/ \E token \in Presentable : Logout(token)
    \/ \E token \in Presentable : GetCurrentUser(token)
    \/ \E id \in 1..MaxUsers : BanUser(id)
    \/ \E id \in 1..MaxUsers : DeleteUser(id)
    \/ \E d \in UtcSteps : AdvanceUtc(d)

\* create_access_token and get_current_user over every ttl, for one account
TokenNext ==
    \/ /\ users = {}
       /\ SubmitRegister(<<"b", "o", "b">>, "b@example.com",
                         <<"P", "a", "s", "s", "w", "o", "r", "d", "1">>, Salt(nextId))
    \/ \E u \in users, expires_delta \in Deltas :
          CreateAccessToken(<<Str(u.id)>>, expires_delta)
    \/ \E expires_delta \in Deltas : CreateAccessToken(<<>>, expires_delta)
    \/ \E token \in Presentable : GetCurrentUser(token)
    \/ \E d \in UtcSteps : AdvanceUtc(d)

MaxSuffix == 2

Alphabet == {"a", "Z", "7", "_", Newline, "-", "arabic-indic 3"}
Fill(c, n) == [i \in 1..n |-> c]
Suffixes == UNION {[1..n -> Alphabet] : n \in 0..MaxSuffix}

\* usernames around both length limits, passwords around the length limit
UsernameInputs ==
    {Fill("a", n) \o s : n \in {USERNAME_MIN - 2, USERNAME_MAX - 1}, s \in Suffixes}
PasswordInputs ==
    UNION {{Fill(c, n) \o s, s \o Fill(c, n)} :
              c \in {"a", "Z"}, n \in {PASSWORD_MIN - 3, PASSWORD_MIN - 2}, s \in Suffixes}
RegisterInputs ==
    (UsernameInputs \X (Passwords \cup {<<"p", "a", "s", "s", "w", "o", "r", "d">>}))
        \cup (Usernames \X PasswordInputs)

\* one POST /register against the empty table, over every input
ValidateNext ==
    \E input \in RegisterInputs :
        /\ users = {}
        /\ last = NoRequest
        /\ SubmitRegister(input[1], "a@example.com", input[2], Salt(nextId))

Init == RateInit /\ AuthInit

Next == RateNext

Spec == Init /\ [][Next]_vars

SpecAuth == Init /\ [][AuthNext]_vars

SpecToken == Init /\ [][TokenNext]_vars

SpecValidate == Init /\ [][ValidateNext]_vars

SpecSession == Init /\ [][SessionNext]_vars

-----------------------------------------------------------------------------
(* Properties of the rate limiter, checked under Spec                      *)

\* the admitted requests of client c whose timestamps lie in [lo, hi)
AdmittedIn(c, lo, hi) ==
    {i \in 1..Len(log[c]) : log[c][i].ok /\ lo <= log[c][i].t /\ log[c][i].t < hi}

\* C1: for each client, among the requests that fall inside the window of
\* length period opened by the client's first request, exactly the first
\* `calls` are admitted: request number calls+1 (and every later one in that
\* window) is rejected.
C1_FirstWindowQuota ==
    \A c \in Clients : \A k \in 1..Len(log[c]) :
        (log[c][k].t - log[c][1].t < period) => (log[c][k].ok <=> k <= calls)

\* a client whose request number calls+1 came later than its first one, inside
\* the same window, and was rejected
C1_Witness ==
    \E c \in Clients :
        /\ Len(log[c]) > calls
        /\ log[c][calls + 1].t > log[c][1].t
        /\ log[c][calls + 1].t - log[c][1].t < period
        /\ \A k \in 1..calls : log[c][k].ok
        /\ ~log[c][calls + 1].ok

\* C2: with several dispatch coroutines of one client in flight, interleaved
\* at every await point, no interval of length period ever holds more than
\* `calls` admitted timestamps of that client.
C2_NoOverAdmission ==
    \A c \in Clients : \A s \in 0..MaxTime :
        Cardinality(AdmittedIn(c, s, s + period)) <= calls

\* two requests of one client suspended in call_next at once while a further
\* request of that client has just been rejected
C2_Witness ==
    \E c \in Clients : \E r1, r2 \in Slots :
        /\ r1 # r2
        /\ req[r1] = [pc |-> "call_next", ip |-> c, t |-> 0]
        /\ req[r2] = [pc |-> "call_next", ip |-> c, t |-> 0]
        /\ Len(log[c]) > 0
        /\ ~log[c][Len(log[c])].ok
        /\ log[c][Len(log[c])].t = clock

\* C5: a client that has been rejected and whose stored list is full is
\* admitted by a request made exactly period after the oldest stored
\* timestamp t0; that request drops t0 only, every newer timestamp stays.
C5_SlidingReadmission ==
    [][\A c \in Clients :
          ( /\ c \in DOMAIN clients
            /\ Len(clients[c]) = calls
            /\ clock = clients[c][1] + period
            /\ \E j \in 1..Len(log[c]) : ~log[c][j].ok
            /\ log'[c] # log[c] )
          => /\ log'[c][Len(log'[c])] = [t |-> clock, ok |-> TRUE]
             /\ clients'[c] =
                  Append(SelectSeq(clients[c], LAMBDA x : x > clients[c][1]), clock)
      ]_vars

\* a rejected client admitted again exactly period after an admitted request,
\* with a newer timestamp of the old window still stored
C5_Witness ==
    \E c \in Clients : \E i, j, k \in 1..Len(log[c]) :
        /\ i < j /\ j < k /\ k = Len(log[c])
        /\ log[c][i].ok /\ ~log[c][j].ok /\ log[c][k].ok
        /\ log[c][k].t = log[c][i].t + period
        /\ c \in DOMAIN clients
        /\ Len(clients[c]) = calls
        /\ clients[c][1] > log[c][i].t
        /\ clients[c][calls] = log[c][k].t

\* C6: a request of client a changes no other client's list, and whether it
\* is admitted is decided by a's own history alone: it is admitted exactly
\* when fewer than `calls` of a's earlier admitted requests are less than
\* period old.
C6_PerClientState ==
    [][\A a \in Clients :
          log'[a] # log[a] =>
              /\ \A b \in Clients \ {a} :
                    /\ log'[b] = log[b]
                    /\ (b \in DOMAIN clients') = (b \in DOMAIN clients)
                    /\ b \in DOMAIN clients => clients'[b] = clients[b]
              /\ log'[a][Len(log'[a])].ok
                   <=> Cardinality(AdmittedIn(a, clock - period + 1, clock + 1)) < calls
      ]_vars

\* client b admitted at a moment when client a, at quota, has just been rejected
C6_Witness ==
    \E a, b \in Clients :
        /\ a # b
        /\ a \in DOMAIN clients /\ Len(clients[a]) = calls
        /\ Len(log[a]) > 0 /\ Len(log[b]) > 0
        /\ log[a][Len(log[a])] = [t |-> clock, ok |-> FALSE]
        /\ log[b][Len(log[b])] = [t |-> clock, ok |-> TRUE]

-----------------------------------------------------------------------------
(* Properties of the authentication routes                                 *)

LiveUser(sub) == {u \in users : Str(u.id) = sub /\ ~u.is_banned}

\* C3: get_current_user rejects a validly signed, unexpired token whose
\* subject is no existing user or a banned one, and the user it returns is
\* always an existing user who is not banned.  (SpecAuth)
C3_OnlyLiveUsersAuthenticated ==
    last.op = "get_current_user" =>
        LET payload == JwtDecode(last.token, JWT_SECRET, {JWT_ALGORITHM}, utcnow)
        IN  /\ ( /\ payload # <<>>
                 /\ payload[1].sub # <<>>
                 /\ LiveUser(payload[1].sub[1]) = {} ) => last.status = 401
            /\ last.status = 200 =>
                   \E u \in users : last.user = <<u>> /\ ~u.is_banned

\* what the claim takes a ttl argument to mean: none given is 7 days
ClaimedTtl(delta) == IF delta = <<>> THEN Seconds(DEFAULT_EXPIRE_SECONDS) ELSE delta[1]

\* C4: a token issued at issuedAt with ttl t for an existing user is accepted
\* by get_current_user at every now < issuedAt + t and rejected at every
\* now >= issuedAt + t, the instant now = issuedAt + t included.  (SpecToken)
C4_ExpiryAtTtl ==
    last.op = "get_current_user" =>
        \A i \in tokens :
            ( /\ i.token = last.token
              /\ i.token.claims.sub # <<>>
              /\ LiveUser(i.token.claims.sub[1]) # {} )
            => /\ utcnow < i.at + ClaimedTtl(i.delta) => last.status = 200
               /\ utcnow >= i.at + ClaimedTtl(i.delta) => last.status = 401

UniqueIdentities(us) ==
    \A u1, u2 \in us : u1 # u2 => u1.username # u2.username /\ u1.email # u2.email

\* C7: after every register call no two stored users share a username or an
\* email, and a call that passes validation with the username or the email
\* of a stored user is answered 400 and leaves the table as it was.  (SpecAuth)
C7_UniqueRegistration ==
    [][(last'.op = "register" /\ (last' # last \/ users' # users)) =>
          /\ UniqueIdentities(users')
          /\ ( /\ last'.status # 422
               /\ \E u \in users : u.username = last'.username \/ u.email = last'.email )
             => /\ last'.status = 400
                /\ users' = users
                /\ nextId' = nextId
      ]_vars

\* two users stored, and a register call with the username of one of them
\* refused as a duplicate
C7_Witness ==
    /\ last.op = "register"
    /\ last.status = 400
    /\ last.detail = {"Username already taken"}
    /\ Cardinality(users) = 2
    /\ \E u \in users : u.username = last.username /\ u.email # last.email

\* C8: login issues a token exactly when the email is a stored user's, the
\* password verifies against that user's hash and the user is not banned; the
\* token is signed with the secret, its subject is that user's id, its exp
\* is the second of issue + 604800 and expires_in is 604800; a banned user
\* with correct credentials gets 403 and no token.  (SpecAuth)
C8_LoginIssuesToken ==
    [][(last'.op = "login" /\ (last' # last \/ tokens' # tokens)) =>
          LET match == {u \in users : /\ u.email = last'.email
                                      /\ verify_password(last'.password, u.password_hash)}
          IN  /\ last'.status = 200 <=> \E u \in match : ~u.is_banned
              /\ last'.status = 200 =>
                    /\ Len(last'.body) = 1
                    /\ last'.body[1].expires_in = 604800
                    /\ last'.body[1].token_type = "bearer"
                    /\ last'.body[1].access_token.key = JWT_SECRET
                    /\ last'.body[1].access_token.claims.exp = Timegm(utcnow) + 604800
                    /\ \E u \in match :
                          last'.body[1].access_token.claims.sub = <<Str(u.id)>>
              /\ last'.status # 200 => last'.body = <<>> /\ tokens' = tokens
              /\ (\E u \in match : u.is_banned) =>
                    last'.status = 403 /\ last'.detail = "Account is banned"
      ]_vars

\* a login that was issued a token between two whole seconds, while another
\* account is banned
C8_Witness ==
    /\ last.op = "login"
    /\ last.status = 200
    /\ utcnow % TicksPerSecond # 0
    /\ \E i \in tokens : i.token = last.body[1].access_token
    /\ \E u \in users : u.is_banned

\* C9: a login with an unknown email and a login with a known email and a
\* wrong password get the same response, 401 "Incorrect email or password"
\* without a token, whether or not the known user is banned: the response is
\* the one the table without that user would give.  (SpecAuth)
C9_FailedLoginUniform ==
    [][(last'.op = "login" /\ last' # last) =>
          LET known == {u \in users : u.email = last'.email}
          IN  ( \/ known = {}
                \/ \A u \in known : ~verify_password(last'.password, u.password_hash) )
              => /\ last'.status = 401
                 /\ last'.detail = "Incorrect email or password"
                 /\ last'.body = <<>>
                 /\ tokens' = tokens
                 /\ LET other == LoginResponse(users \ known, last'.email, last'.password, utcnow)
                    IN  <<last'.status, last'.detail, last'.body>>
                            = <<other.status, other.detail, other.body>>
      ]_vars

\* a failed login with the email of a banned user and a wrong password
C9_Witness ==
    /\ last.op = "login"
    /\ last.status = 401
    /\ \E u \in users : /\ u.email = last.email
                        /\ u.is_banned
                        /\ ~verify_password(last.password, u.password_hash)

IsPolicyUsername(v) ==
    /\ Len(v) >= 3 /\ Len(v) <= 50
    /\ \A i \in 1..Len(v) : v[i] \in Lower \cup Upper \cup AsciiDigit \cup {"_"}

IsPolicyPassword(v) ==
    /\ Len(v) >= 8
    /\ \E i \in 1..Len(v) : v[i] \in Upper
    /\ \E i \in 1..Len(v) : v[i] \in Lower
    /\ \E i \in 1..Len(v) : v[i] \in UnicodeDigit

\* C10: a register request gets past validation only if its username has 3
\* to 50 characters, all of them ASCII letters, digits or underscores, and
\* its password has at least 8 characters with an upper-case letter, a
\* lower-case letter and a digit; a rejected request stores nothing.
\* (SpecValidate)
C10_ValidationPolicy ==
    last.op = "register" =>
        /\ last.status # 422 =>
               IsPolicyUsername(last.username) /\ IsPolicyPassword(last.password)
        /\ last.status = 422 => users = {}

-----------------------------------------------------------------------------
(* Further properties of the rate limiter, checked under Spec              *)

\* the timestamps of the admitted requests of client c, in the order of
\* their admission
AdmittedTimes(c) ==
    LET admitted == SelectSeq(log[c], LAMBDA e : e.ok)
    IN  [i \in 1..Len(admitted) |-> admitted[i].t]

IsSuffix(s, t) ==
    /\ Len(s) <= Len(t)
    /\ \A i \in 1..Len(s) : s[i] = t[Len(t) - Len(s) + i]

\* C11: wherever an interval of length period starts, on a multiple of
\* period or not, it holds at most `calls` admitted timestamps of a client;
\* the list stored for the client never holds more than `calls` timestamps
\* and is always the latest part of the client's admitted timestamps.
C11_SlidingWindowBound ==
    \A c \in Clients :
        /\ \A s \in (1 - period)..MaxTime :
               Cardinality(AdmittedIn(c, s, s + period)) <= calls
        /\ Len(Get(c)) <= calls
        /\ IsSuffix(Get(c), AdmittedTimes(c))

\* a request rejected in the fixed bucket after the one its client's first
\* admitted request fell in, less than period after that request
C11_Witness ==
    \E c \in Clients : \E i, k \in 1..Len(log[c]) :
        /\ i < k
        /\ log[c][i].ok
        /\ ~log[c][k].ok
        /\ log[c][i].t \div period < log[c][k].t \div period
        /\ log[c][k].t - log[c][i].t < period
        /\ Len(Get(c)) = calls

\* C12: a rejected request leaves the client's list equal to the part of the
\* old list that is less than period old, appends nothing, starts no
\* downstream handler and leaves every dispatch in flight as it was; so
\* every decision is a function of the admitted timestamps alone, and
\* rejected requests do not delay the next admission.
C12_RejectionRecordsNothing ==
    [][\A c \in Clients :
          ( /\ Len(log'[c]) = Len(log[c]) + 1
            /\ ~log'[c][Len(log'[c])].ok )
          => /\ c \in DOMAIN clients'
             /\ clients'[c] = SelectSeq(Get(c), LAMBDA x : clock - x < period)
             /\ req' = req
             /\ \A k \in 1..Len(log'[c]) :
                    log'[c][k].ok <=>
                        Cardinality({i \in 1..(k - 1) :
                                        /\ log'[c][i].ok
                                        /\ log'[c][k].t - log'[c][i].t < period}) < calls
      ]_vars

\* a client rejected twice, at two different times, whose list still holds
\* exactly its admitted timestamps
C12_Witness ==
    \E c \in Clients : \E j, k \in 1..Len(log[c]) :
        /\ j < k /\ k = Len(log[c])
        /\ ~log[c][j].ok /\ ~log[c][k].ok
        /\ log[c][j].t < log[c][k].t
        /\ log[c][k].t = clock
        /\ Get(c) = AdmittedTimes(c)
        /\ \A r \in Slots : req[r].pc = "idle"

\* C13: the count is checked on timestamps of the trailing window only:
\* right after a dispatch call of a client at time now, with or without the
\* timestamp it appended, every timestamp stored for the client satisfies
\* 0 <= now - timestamp < period, and the list is in non-decreasing order.
C13_OnlyTrailingWindowStored ==
    [][\A c \in Clients :
          Len(log'[c]) = Len(log[c]) + 1 =>
              /\ c \in DOMAIN clients'
              /\ \A i \in 1..Len(clients'[c]) :
                     /\ clock - clients'[c][i] < period
                     /\ clock - clients'[c][i] >= 0
              /\ \A i, j \in 1..Len(clients'[c]) :
                     i <= j => clients'[c][i] <= clients'[c][j]
              /\ LET checked == IF log'[c][Len(log'[c])].ok
                                THEN SubSeq(clients'[c], 1, Len(clients'[c]) - 1)
                                ELSE clients'[c]
                 IN  /\ \A i \in 1..Len(checked) : clock - checked[i] < period
                     /\ log'[c][Len(log'[c])].ok <=> Len(checked) < calls
      ]_vars

\* a dispatch call that dropped an old timestamp and left two different
\* timestamps stored
C13_Witness ==
    \E c \in Clients :
        /\ Len(log[c]) > 0
        /\ log[c][Len(log[c])].t = clock
        /\ Len(Get(c)) = 2
        /\ Get(c)[1] < Get(c)[2]
        /\ \E i \in 1..Len(log[c]) : log[c][i].ok /\ clock - log[c][i].t >= period

-----------------------------------------------------------------------------
(* Token lifetime across login and logout, checked under SpecSession       *)

\* a request that ran get_current_user on an issued token of a user whose
\* row exists, strictly before issue time + ttl, was authenticated
AcceptedBeforeExpiry ==
    last.op \in {"get_current_user", "logout"} =>
        \A i \in tokens :
            ( /\ i.token = last.token
              /\ \E u \in users : <<Str(u.id)>> = i.token.claims.sub
              /\ utcnow < i.at + i.delta[1] )
            => last.status = 200

\* C14: after any sequence of login and logout calls a token issued by login
\* for a user who still exists is accepted by get_current_user at every time
\* before its expiry, also after logout was called with it; a logout call
\* changes neither the users table nor anything else the server keeps.
C14_OnlyExpiryEndsToken ==
    [][/\ AcceptedBeforeExpiry'
       /\ (last'.op = "logout" /\ (last' # last \/ loggedOut' # loggedOut)) =>
              /\ users' = users
              /\ nextId' = nextId
              /\ tokens' = tokens
              /\ utcnow' = utcnow
              /\ rateVars' = rateVars
      ]_vars

\* a token authenticated at a later time than its issue, after logout had
\* been called with it
C14_Witness ==
    /\ last.op = "get_current_user"
    /\ last.status = 200
    /\ last.token \in loggedOut
    /\ \E i \in tokens : i.token = last.token /\ utcnow > i.at

====
